---------------------------- MODULE Spec2Model ----------------------------
(* pyod/models/auto_encoder_torch.py: PyODDataset, inner_autoencoder and   *)
(* the AutoEncoder detector (fit, _train_autoencoder, decision_function).  *)
(*                                                                         *)
(* Real numbers are exact rationals [n, d] (d = 0 encodes nan / +-inf, as  *)
(* numpy division by zero produces them).  The learnable parameters of a   *)
(* network are abstracted to the number of optimizer steps applied to      *)
(* them, and the network's output to an uninterpreted term over its        *)
(* inputs.                                                                 *)
EXTENDS Integers, Sequences, FiniteSets, TLC

VARIABLES
    cfg,              \* constructor arguments kept as attributes by __init__
    mean,             \* self.mean
    std,              \* self.std
    model,            \* self.model (an inner_autoencoder)
    best_loss,        \* self.best_loss
    best_model_dict,  \* self.best_model_dict
    decision_scores_, \* self.decision_scores_
    labels_,          \* threshold_/labels_ derived by _process_decision_scores
    pc,               \* position of the caller: "idle" or inside fit's epoch loop
    X_fit,            \* fit's local X while the call is in progress
    epoch,            \* loop variable of _train_autoencoder
    stdout,           \* the mean losses printed by the last call
    ret               \* the last call: its operation, argument and outcome

vars == <<cfg, mean, std, model, best_loss, best_model_dict, decision_scores_,
          labels_, pc, X_fit, epoch, stdout, ret>>

-----------------------------------------------------------------------------
(* Bounds *)

MaxSamples == 2
MaxEpochs == 2
MaxHidden == 2
MaxWidth == 2
MaxNetFeatures == 3

\* matrix entries, column counts of the matrices given to fit and
\* decision_function, batch_size settings, and finite mean losses of an epoch
Vals == {0, 1}
FeatureCounts == {1}
BatchSizes == {1, 2}
LossVals == {1, 2}

-----------------------------------------------------------------------------
(* Python values *)

Absent == [tag |-> "absent"]
None == [tag |-> "None"]
Array(v) == [tag |-> "array", v |-> v]

Returned(v) == [tag |-> "return", v |-> v]
Raised(e) == [tag |-> "raise", v |-> e]

Min2(a, b) == IF a <= b THEN a ELSE b
Max2(a, b) == IF a >= b THEN a ELSE b
Abs(a) == IF a < 0 THEN -a ELSE a
Sign(a) == IF a < 0 THEN -1 ELSE IF a > 0 THEN 1 ELSE 0

RECURSIVE GCD(_, _)
GCD(a, b) ==
    IF b = 0 THEN a ELSE GCD(b, a % b)

\* IEEE-style quotient n/d as a reduced fraction; d = 0 gives nan (n = 0) or
\* a signed infinity (n = +-1)
Q(n, d) ==
    IF d = 0 THEN [n |-> Sign(n), d |-> 0]
    ELSE LET s == Sign(d)
             g == GCD(Abs(n), Abs(d))
         IN [n |-> (s * n) \div g, d |-> (s * d) \div g]

IsFinite(a) == a.d # 0
RSub(a, b) == Q(a.n * b.d - b.n * a.d, a.d * b.d)
RDiv(a, b) == Q(a.n * b.d, a.d * b.n)

RECURSIVE SeqSum(_)
SeqSum(s) ==
    IF s = <<>> THEN 0 ELSE Head(s) + SeqSum(Tail(s))

Reverse(s) == [i \in 1..Len(s) |-> s[Len(s) + 1 - i]]

\* losses: a number, nan, or +inf
Num(v) == [k |-> "num", v |-> v]
NaN == [k |-> "nan", v |-> 0]
Inf == [k |-> "inf", v |-> 0]

\* a <= b on floats: any comparison with nan is False
FloatLeq(a, b) ==
    /\ a.k # "nan"
    /\ b.k # "nan"
    /\ \/ b.k = "inf"
       \/ a.k = "num" /\ b.k = "num" /\ a.v <= b.v

-----------------------------------------------------------------------------
(* inner_autoencoder *)

KnownActivations == {"relu", "sigmoid", "tanh"}

\* the activation registry: a module for a known name, an error otherwise
get_activation_by_name(name) ==
    IF name \in KnownActivations
    THEN Returned([name |-> <<name, -1>>, kind |-> "activation", w_in |-> 0, w_out |-> 0])
    ELSE Raised("ConfigurationError")

BatchNorm1d(w) == [name |-> <<"", -1>>, kind |-> "batch_norm", w_in |-> w, w_out |-> w]
Linear(a, b) == [name |-> <<"", -1>>, kind |-> "linear", w_in |-> a, w_out |-> b]
Dropout == [name |-> <<"", -1>>, kind |-> "dropout", w_in |-> 0, w_out |-> 0]

\* nn.Sequential.add_module: a module registered under an existing name
\* replaces it in place, a new name is appended
add_module(stack, name, layer) ==
    LET named == [layer EXCEPT !.name = name]
    IN IF \E i \in 1..Len(stack) : stack[i].name = name
       THEN [i \in 1..Len(stack) |-> IF stack[i].name = name THEN named ELSE stack[i]]
       ELSE Append(stack, named)

layers_neurons_(n_features, hidden_neurons) == <<n_features>> \o hidden_neurons

layers_neurons_decoder_same_(ln) == ln

layers_neurons_decoder_(ln) == Reverse(ln)

\* one pass of the first loop; idx is the Python index, ln[idx + 1] is
\* layers_neurons_[idx]
EncoderStage(enc, idx, ln, batch_norm, hidden_activation, activation) ==
    LET e1 == IF batch_norm
              THEN add_module(enc, <<"batch_norm", idx>>, BatchNorm1d(ln[idx + 1]))
              ELSE enc
        e2 == add_module(e1, <<"linear", idx>>, Linear(ln[idx + 1], ln[idx + 2]))
        e3 == add_module(e2, <<hidden_activation, idx>>, activation)
    IN add_module(e3, <<"dropout", idx>>, Dropout)

RECURSIVE EncoderLoop(_, _, _, _, _, _)
EncoderLoop(enc, idx, ln, batch_norm, hidden_activation, activation) ==
    IF idx >= Len(ln) - 1 THEN enc
    ELSE EncoderLoop(EncoderStage(enc, idx, ln, batch_norm, hidden_activation, activation),
                     idx + 1, ln, batch_norm, hidden_activation, activation)

\* one pass of the second loop over the pair (encoder, decoder): the
\* activation is registered on self.encoder, everything else on self.decoder
DecoderStage(net, idx, lnd, batch_norm, hidden_activation, activation) ==
    LET d1 == IF batch_norm
              THEN add_module(net.decoder, <<"batch_norm", idx>>, BatchNorm1d(lnd[idx + 1]))
              ELSE net.decoder
        d2 == add_module(d1, <<"linear", idx>>, Linear(lnd[idx + 1], lnd[idx + 2]))
        e1 == add_module(net.encoder, <<hidden_activation, idx>>, activation)
    IN [encoder |-> e1, decoder |-> add_module(d2, <<"dropout", idx>>, Dropout)]

RECURSIVE DecoderLoop(_, _, _, _, _, _)
DecoderLoop(net, idx, lnd, batch_norm, hidden_activation, activation) ==
    IF idx >= Len(lnd) - 1 THEN net
    ELSE DecoderLoop(DecoderStage(net, idx, lnd, batch_norm, hidden_activation, activation),
                     idx + 1, lnd, batch_norm, hidden_activation, activation)

\* inner_autoencoder.__init__; a fresh nn.Module is in training mode and its
\* parameters have seen no optimizer step
inner_autoencoder(n_features, hidden_neurons, batch_norm, hidden_activation) ==
    LET act == get_activation_by_name(hidden_activation)
        ln == layers_neurons_(n_features, hidden_neurons)
        lnd == layers_neurons_decoder_(ln)
        enc == EncoderLoop(<<>>, 0, ln, batch_norm, hidden_activation, act.v)
        net == DecoderLoop([encoder |-> enc, decoder |-> <<>>], 0, lnd, batch_norm,
                           hidden_activation, act.v)
    IN IF act.tag = "raise" THEN act
       ELSE Returned([tag |-> "module",
                      n_features |-> n_features,
                      batch_norm |-> batch_norm,
                      layers_neurons_ |-> ln,
                      layers_neurons_decoder_ |-> lnd,
                      encoder |-> net.encoder,
                      decoder |-> net.decoder,
                      training |-> TRUE,
                      params |-> 0])


-----------------------------------------------------------------------------
(* PyODDataset *)

n_samples(X) == Len(X)
n_features_of(X) == Len(X[1])

PyODDataset(X, mean_, std_) == [X |-> X, mean |-> mean_, std |-> std_]

\* numpy broadcasting of two 1-d shapes
Broadcastable(a, b) == a = b \/ a = 1 \/ b = 1
At(v, j) == IF Len(v) = 1 THEN v[1] ELSE v[j]

\* (sample - mean) / std, elementwise with broadcasting
Standardize(sample, m, s) ==
    [j \in 1..Max2(Len(sample), Len(m)) |-> RDiv(RSub(At(sample, j), At(m, j)), At(s, j))]

\* PyODDataset.__getitem__: self.mean.any() is evaluated on whatever mean is
getitem(ds, idx) ==
    LET sample == [j \in 1..Len(ds.X[idx + 1]) |-> Q(ds.X[idx + 1][j], 1)]
    IN IF ds.mean = None THEN Raised("AttributeError")
       ELSE IF \E j \in 1..Len(ds.mean.v) : ds.mean.v[j].n # 0
       THEN IF Broadcastable(Len(sample), Len(ds.mean.v))
            THEN Returned([sample |-> Standardize(sample, ds.mean.v, ds.std.v), idx |-> idx])
            ELSE Raised("ValueError")
       ELSE Returned([sample |-> sample, idx |-> idx])

\* np.mean(X, axis=0)
np_mean(X) ==
    Array([j \in 1..n_features_of(X) |->
              Q(SeqSum([i \in 1..n_samples(X) |-> X[i][j]]), n_samples(X))])

-----------------------------------------------------------------------------
(* torch.utils.data.DataLoader *)

Identity(n) == [i \in 1..n |-> i - 1]
Perms(n) == {p \in [1..n -> 0..(n - 1)] : \A i, j \in 1..n : p[i] = p[j] => i = j}

RECURSIVE Chunks(_, _)
Chunks(order, batch_size) ==
    IF order = <<>> THEN <<>>
    ELSE LET k == Min2(batch_size, Len(order))
         IN <<SubSeq(order, 1, k)>> \o Chunks(SubSeq(order, k + 1, Len(order)), batch_size)

\* the batch sequences a loader may yield: one for shuffle=False, one per
\* permutation for shuffle=True
DataLoader(n, batch_size, shuffle) ==
    IF shuffle THEN {Chunks(p, batch_size) : p \in Perms(n)}
    ELSE {Chunks(Identity(n), batch_size)}

\* default collation of the (sample, idx) pairs of one batch
Collate(ds, batch) ==
    LET items == [k \in 1..Len(batch) |-> getitem(ds, batch[k])]
    IN IF \E k \in 1..Len(batch) : items[k].tag = "raise"
       THEN items[CHOOSE k \in 1..Len(batch) :
                    /\ items[k].tag = "raise"
                    /\ \A l \in 1..(k - 1) : items[l].tag # "raise"]
       ELSE Returned([data |-> [k \in 1..Len(batch) |-> items[k].v.sample],
                      idx |-> batch])

-----------------------------------------------------------------------------
(* the network as a function *)

\* inner_autoencoder.forward on one batch.  In evaluation mode the output
\* row is a function of the parameters and the input row; in training mode
\* batch normalisation makes it depend on the whole batch and rejects a
\* batch of one row.
forward(m, data) ==
    IF \E k \in 1..Len(data) : Len(data[k]) # m.n_features
    THEN Raised("RuntimeError")
    ELSE IF m.training /\ m.batch_norm /\ Len(m.layers_neurons_) > 1 /\ Len(data) = 1
    THEN Raised("ValueError")
    ELSE Returned([k \in 1..Len(data) |->
                      [params |-> m.params, x |-> data[k],
                       batch |-> IF m.training THEN data ELSE <<>>]])

\* per-row distance between two row-aligned matrices
pairwise_distances_no_broadcast(A, B) ==
    [k \in 1..Len(A) |-> [tag |-> "dist", a |-> A[k], b |-> B[k]]]

eval_skipped(m) == m

\* nn.Module.eval()
eval(m) == [m EXCEPT !.training = FALSE]

\* nn.Module.state_dict(): a new dict whose tensors share storage with the
\* module's parameters
state_dict(m, at) ==
    [tag |-> "state_dict", shared |-> TRUE, params |-> m.params, made_at |-> at]

\* an in-place update of the parameters is seen through every dict that
\* shares their storage
SeenThrough(sd, m) ==
    IF sd.tag = "state_dict" /\ sd.shared THEN [sd EXCEPT !.params = m.params] ELSE sd

\* nn.Module.load_state_dict
load_state_dict(m, sd) ==
    IF sd.tag # "state_dict" THEN Raised("TypeError")
    ELSE Returned([m EXCEPT !.params = sd.params])

-----------------------------------------------------------------------------
(* AutoEncoder *)

DefaultHidden == <<128, 64>>

Zero == [tag |-> "zero"]

Outcome(op, X, r) == [op |-> op, X |-> X, tag |-> r.tag, v |-> r.v]

\* the loop of decision_function over the batches of a loader:
\* outlier_scores[data_idx] = pairwise_distances_no_broadcast(data, model(data))
RECURSIVE ScoreLoop(_, _, _, _)
ScoreLoop(m, ds, batches, outlier_scores) ==
    IF batches = <<>> THEN Returned(outlier_scores)
    ELSE LET b == Collate(ds, Head(batches))
             out == forward(m, b.v.data)
             dist == pairwise_distances_no_broadcast(b.v.data, out.v)
         IN IF b.tag = "raise" THEN b
            ELSE IF out.tag = "raise" THEN out
            ELSE ScoreLoop(m, ds, Tail(batches),
                     [i \in 1..Len(outlier_scores) |->
                         IF \E k \in 1..Len(b.v.idx) : b.v.idx[k] = i - 1
                         THEN dist[CHOOSE k \in 1..Len(b.v.idx) : b.v.idx[k] = i - 1]
                         ELSE outlier_scores[i]])

\* the dataset decision_function and fit build from self.preprocessing
DatasetFor(preprocessing, mean_, std_, X) ==
    IF preprocessing THEN PyODDataset(X, mean_, std_) ELSE PyODDataset(X, None, None)

check_is_fitted_omitted(m, bmd) ==
    IF m = Absent \/ bmd = Absent THEN Raised("AttributeError") ELSE Returned(<<>>)

\* check_is_fitted(self, ['model', 'best_model_dict']): every named attribute
\* must exist, whatever its value
check_is_fitted(m, bmd) ==
    IF m = Absent \/ bmd = Absent THEN Raised("NotFittedError") ELSE Returned(<<>>)

\* AutoEncoder.decision_function on the attributes it reads; yields its
\* outcome and self.model as the call leaves it
decision_function(m, bmd, mean_, std_, preprocessing, batch_size, X) ==
    IF check_is_fitted(m, bmd).tag = "raise"
    THEN [out |-> check_is_fitted(m, bmd), model |-> m]
    ELSE LET ds == DatasetFor(preprocessing, mean_, std_, X)
             batches == CHOOSE bs \in DataLoader(n_samples(X), batch_size, FALSE) : TRUE
             me == eval(m)
         IN [out |-> ScoreLoop(me, ds, batches, [i \in 1..n_samples(X) |-> Zero]),
             model |-> me]

IsBestStrict(mean_loss, best) ==
    /\ FloatLeq(mean_loss, best)
    /\ ~FloatLeq(best, mean_loss)

\* np.mean(overall_loss) <= self.best_loss
IsBest(mean_loss, best) == FloatLeq(mean_loss, best)

\* the inner loop of _train_autoencoder over the batches of one epoch; every
\* completed batch applies one optimizer step
RECURSIVE TrainBatches(_, _, _, _)
TrainBatches(m, ds, batches, has_loss_fn) ==
    IF batches = <<>> THEN Returned(m)
    ELSE LET b == Collate(ds, Head(batches))
             out == forward(m, b.v.data)
         IN IF b.tag = "raise" THEN [tag |-> "raise", v |-> b.v, model |-> m]
            ELSE IF ~has_loss_fn
            THEN [tag |-> "raise", v |-> "AttributeError", model |-> m]
            ELSE IF out.tag = "raise" THEN [tag |-> "raise", v |-> out.v, model |-> m]
            ELSE TrainBatches([m EXCEPT !.params = @ + 1], ds, Tail(batches), has_loss_fn)

\* whether some row of the dataset standardises to nan or inf
NonFiniteData(ds) ==
    \E i \in 1..Len(ds.X) :
        LET it == getitem(ds, i - 1)
        IN it.tag = "return" /\ \E j \in 1..Len(it.v.sample) : ~IsFinite(it.v.sample[j])

Losses == {Num(v) : v \in LossVals} \cup {NaN}

\* the valid matrices of d columns, and all of them
InputsOfWidth(d) == UNION {[1..n -> [1..d -> Vals]] : n \in 1..MaxSamples}

Inputs == UNION {InputsOfWidth(d) : d \in FeatureCounts}

Configs ==
    [preprocessing : BOOLEAN,
     hidden_activation : {"relu", "no_such_activation"},
     hidden_neurons : {DefaultHidden},
     batch_norm : BOOLEAN,
     epochs : 0..MaxEpochs,
     batch_size : BatchSizes,
     has_loss_fn : BOOLEAN]

NoCall == [op |-> "none", X |-> <<>>, tag |-> "none", v |-> <<>>]

\* AutoEncoder.__init__
Init ==
    /\ cfg \in Configs
    /\ mean = Absent
    /\ std = Absent
    /\ model = Absent
    /\ best_loss = Absent
    /\ best_model_dict = Absent
    /\ decision_scores_ = Absent
    /\ labels_ = Absent
    /\ pc = "idle"
    /\ X_fit = <<>>
    /\ epoch = 0
    /\ stdout = <<>>
    /\ ret = NoCall

\* fit up to the network build failing: the statistics are already assigned
FitBuildFails ==
    /\ pc = "idle"
    /\ \E n_features \in FeatureCounts :
          LET built == inner_autoencoder(n_features, cfg.hidden_neurons,
                                         cfg.batch_norm, cfg.hidden_activation)
          IN /\ built.tag = "raise"
             /\ \E X \in InputsOfWidth(n_features) :
                   /\ IF cfg.preprocessing
                      THEN mean' = np_mean(X) /\ std' = np_mean(X)
                      ELSE UNCHANGED <<mean, std>>
                   /\ ret' = Outcome("fit", X, built)
    /\ stdout' = <<>>
    /\ UNCHANGED <<cfg, model, best_loss, best_model_dict, decision_scores_, labels_,
                   pc, X_fit, epoch>>

\* fit from its first line to the head of the epoch loop
FitStart ==
    /\ pc = "idle"
    /\ \E n_features \in FeatureCounts :
          LET built == inner_autoencoder(n_features, cfg.hidden_neurons,
                                         cfg.batch_norm, cfg.hidden_activation)
          IN /\ built.tag = "return"
             /\ model' = built.v
             /\ \E X \in InputsOfWidth(n_features) :
                   /\ IF cfg.preprocessing
                      THEN mean' = np_mean(X) /\ std' = np_mean(X)
                      ELSE UNCHANGED <<mean, std>>
                   /\ X_fit' = X
                   /\ ret' = [op |-> "fit", X |-> X, tag |-> "running", v |-> <<>>]
    /\ best_loss' = Inf
    /\ best_model_dict' = None
    /\ epoch' = 0
    /\ pc' = "train"
    /\ stdout' = <<>>
    /\ UNCHANGED <<cfg, decision_scores_, labels_>>

\* one epoch of _train_autoencoder that some batch aborts
TrainEpochFails ==
    /\ pc = "train"
    /\ epoch < cfg.epochs
    /\ \E batches \in DataLoader(n_samples(X_fit), cfg.batch_size, TRUE) :
          LET ds == DatasetFor(cfg.preprocessing, mean, std, X_fit)
              run == TrainBatches(model, ds, batches, cfg.has_loss_fn)
          IN /\ run.tag = "raise"
             /\ model' = run.model
             /\ best_model_dict' = SeenThrough(best_model_dict, run.model)
             /\ ret' = Outcome("fit", X_fit, run)
    /\ pc' = "idle"
    /\ X_fit' = <<>>
    /\ epoch' = 0
    /\ UNCHANGED <<cfg, mean, std, best_loss, decision_scores_, labels_, stdout>>

\* one full epoch of _train_autoencoder with mean loss mean_loss
TrainEpoch ==
    /\ pc = "train"
    /\ epoch < cfg.epochs
    /\ \E batches \in DataLoader(n_samples(X_fit), cfg.batch_size, TRUE), mean_loss \in Losses :
          LET ds == DatasetFor(cfg.preprocessing, mean, std, X_fit)
              run == TrainBatches(model, ds, batches, cfg.has_loss_fn)
          IN /\ run.tag = "return"
             /\ NonFiniteData(ds) => mean_loss = NaN
             /\ model' = run.v
             /\ stdout' = Append(stdout, mean_loss)
             /\ IF IsBest(mean_loss, best_loss)
                THEN /\ best_loss' = mean_loss
                     /\ best_model_dict' = state_dict(run.v, epoch)
                ELSE /\ best_loss' = best_loss
                     /\ best_model_dict' = SeenThrough(best_model_dict, run.v)
    /\ epoch' = epoch + 1
    /\ UNCHANGED <<cfg, mean, std, decision_scores_, labels_, pc, X_fit, ret>>

\* fit after the epoch loop, when load_state_dict or the scoring raises
FitFinishFails ==
    /\ pc = "train"
    /\ epoch = cfg.epochs
    /\ LET loaded == load_state_dict(model, best_model_dict)
           scored == decision_function(loaded.v, best_model_dict, mean, std,
                                       cfg.preprocessing, cfg.batch_size, X_fit)
       IN \/ /\ loaded.tag = "raise"
             /\ ret' = Outcome("fit", X_fit, loaded)
             /\ UNCHANGED model
          \/ /\ loaded.tag = "return"
             /\ scored.out.tag = "raise"
             /\ ret' = Outcome("fit", X_fit, scored.out)
             /\ model' = scored.model
    /\ pc' = "idle"
    /\ X_fit' = <<>>
    /\ epoch' = 0
    /\ UNCHANGED <<cfg, mean, std, best_loss, best_model_dict, decision_scores_, labels_,
                   stdout>>

\* fit after the epoch loop: install the best snapshot, score the training
\* data, derive threshold and labels, return self
FitFinish ==
    /\ pc = "train"
    /\ epoch = cfg.epochs
    /\ LET loaded == load_state_dict(model, best_model_dict)
           scored == decision_function(loaded.v, best_model_dict, mean, std,
                                       cfg.preprocessing, cfg.batch_size, X_fit)
       IN /\ loaded.tag = "return"
          /\ scored.out.tag = "return"
          /\ model' = scored.model
          /\ decision_scores_' = Array(scored.out.v)
          /\ labels_' = [tag |-> "labels", n |-> Len(scored.out.v)]
          /\ ret' = [op |-> "fit", X |-> X_fit, tag |-> "return", v |-> <<>>]
    /\ pc' = "idle"
    /\ X_fit' = <<>>
    /\ epoch' = 0
    /\ UNCHANGED <<cfg, mean, std, best_loss, best_model_dict, stdout>>

DecisionFunctionRefits ==
    /\ pc = "idle"
    /\ \E X \in Inputs :
          LET r == decision_function(model, best_model_dict, mean, std,
                                     cfg.preprocessing, cfg.batch_size, X)
          IN /\ ret' = Outcome("decision_function", X, r.out)
             /\ model' = r.model
             /\ IF r.out.tag = "return" /\ cfg.preprocessing
                THEN mean' = np_mean(X) /\ std' = np_mean(X)
                ELSE UNCHANGED <<mean, std>>
    /\ stdout' = <<>>
    /\ UNCHANGED <<cfg, best_loss, best_model_dict, decision_scores_, labels_,
                   pc, X_fit, epoch>>

\* a call of decision_function by the user
DecisionFunction ==
    /\ pc = "idle"
    /\ \E X \in Inputs :
          LET r == decision_function(model, best_model_dict, mean, std,
                                     cfg.preprocessing, cfg.batch_size, X)
          IN /\ ret' = Outcome("decision_function", X, r.out)
             /\ model' = r.model
    /\ stdout' = <<>>
    /\ UNCHANGED <<cfg, mean, std, best_loss, best_model_dict, decision_scores_, labels_,
                   pc, X_fit, epoch>>

Next ==
    \/ FitBuildFails
    \/ FitStart
    \/ TrainEpochFails
    \/ TrainEpoch
    \/ FitFinishFails
    \/ FitFinish
    \/ DecisionFunction

Spec == Init /\ [][Next]_vars

-----------------------------------------------------------------------------
(* inner_autoencoder on its own: the constructor applied to bounded inputs *)

HiddenSeqs == UNION {[1..k -> 1..MaxWidth] : k \in 0..MaxHidden}

NetConfigs ==
    [preprocessing : {TRUE},
     hidden_activation : {"relu", "tanh", "no_such_activation"},
     hidden_neurons : HiddenSeqs,
     batch_norm : BOOLEAN,
     epochs : {0},
     batch_size : {1},
     has_loss_fn : {TRUE}]

InitNet ==
    /\ cfg \in NetConfigs
    /\ mean = Absent
    /\ std = Absent
    /\ model = Absent
    /\ best_loss = Absent
    /\ best_model_dict = Absent
    /\ decision_scores_ = Absent
    /\ labels_ = Absent
    /\ pc = "idle"
    /\ X_fit = <<>>
    /\ epoch = 0
    /\ stdout = <<>>
    /\ ret = NoCall

\* inner_autoencoder(n_features, ...) returns the built module
NewNetwork ==
    /\ ret = NoCall
    /\ \E n \in 1..MaxNetFeatures :
          LET built == inner_autoencoder(n, cfg.hidden_neurons, cfg.batch_norm,
                                         cfg.hidden_activation)
          IN /\ built.tag = "return"
             /\ model' = built.v
             /\ ret' = [op |-> "inner_autoencoder", X |-> <<n>>, tag |-> "return", v |-> <<>>]
    /\ UNCHANGED <<cfg, mean, std, best_loss, best_model_dict, decision_scores_, labels_,
                   pc, X_fit, epoch, stdout>>

\* inner_autoencoder(n_features, ...) raises from the activation lookup
NewNetworkFails ==
    /\ ret = NoCall
    /\ \E n \in 1..MaxNetFeatures :
          LET built == inner_autoencoder(n, cfg.hidden_neurons, cfg.batch_norm,
                                         cfg.hidden_activation)
          IN /\ built.tag = "raise"
             /\ ret' = Outcome("inner_autoencoder", <<n>>, built)
    /\ UNCHANGED <<cfg, mean, std, model, best_loss, best_model_dict, decision_scores_,
                   labels_, pc, X_fit, epoch, stdout>>

NextNet ==
    \/ NewNetwork
    \/ NewNetworkFails

SpecNet == InitNet /\ [][NextNet]_vars

-----------------------------------------------------------------------------
(* Properties *)

Attributes == <<mean, std, model, best_loss, best_model_dict, decision_scores_, labels_>>

Unfit == Attributes = <<Absent, Absent, Absent, Absent, Absent, Absent, Absent>>

\* a fit call on this instance ran to completion
Fitted == decision_scores_ # Absent

\* the step is a decision_function call by the user
ScoringCall == pc = "idle" /\ pc' = "idle" /\ ret'.op = "decision_function"

\* number of optimizer steps of one epoch over X
StepsPerEpoch(X) == Len(Chunks(Identity(n_samples(X)), cfg.batch_size))

\* epochs (1-based) whose printed mean loss is a number
Scored(log) == {i \in 1..Len(log) : log[i].k # "nan"}

\* the latest epoch (1-based) among those of minimal mean loss
LatestBest(log) ==
    CHOOSE i \in Scored(log) :
        \A j \in Scored(log) :
            /\ FloatLeq(log[i], log[j])
            /\ FloatLeq(log[j], log[i]) => j <= i

Row(X, i) == [j \in 1..Len(X[i + 1]) |-> Q(X[i + 1][j], 1)]

\* C1: after a fit with epochs >= 1 the installed parameters, the snapshot
\* and the parameters behind the training scores are those the network had
\* at the end of the latest epoch of minimal mean loss.
C1_InstalledIsBestEpoch ==
    (ret.op = "fit" /\ ret.tag = "return" /\ cfg.epochs >= 1) =>
        LET at == LatestBest(stdout) * StepsPerEpoch(ret.X)
        IN /\ model.params = at
           /\ best_model_dict.params = at
           /\ \A i \in 1..Len(decision_scores_.v) : decision_scores_.v[i].b.params = at

\* C2: decision_function on an instance without any fitted attribute raises
\* NotFittedError and leaves every attribute as it was.
C2_UnfitScoringFails ==
    [][(Unfit /\ ScoringCall) =>
          /\ ret'.tag = "raise"
          /\ ret'.v = "NotFittedError"
          /\ Attributes' = Attributes]_vars

C2_Witness ==
    /\ Unfit
    /\ ret.op = "decision_function"
    /\ ret.tag = "raise"
    /\ ret.v = "NotFittedError"

\* C3: a returned score vector has one entry per row, entry i is the error
\* of row i scored on its own, and every batch size and every iteration
\* order of the rows yields the same vector.
C3_ScoresIndexStable ==
    (ret.op = "decision_function" /\ ret.tag = "return") =>
        LET X == ret.X
            n == n_samples(X)
            ds == DatasetFor(cfg.preprocessing, mean, std, X)
            zeros == [i \in 1..n |-> Zero]
        IN /\ Len(ret.v) = n
           /\ \A i \in 0..(n - 1) :
                 /\ ret.v[i + 1] = ScoreLoop(model, ds, <<<<i>>>>, zeros).v[i + 1]
                 /\ ret.v[i + 1].tag = "dist"
                 /\ ret.v[i + 1].a = getitem(ds, i).v.sample
           /\ \A batch_size \in 1..(n + 1) :
                 \A batches \in DataLoader(n, batch_size, TRUE) :
                     ScoreLoop(model, ds, batches, zeros) = Returned(ret.v)

C3_Witness ==
    /\ Fitted
    /\ ret.op = "decision_function"
    /\ ret.tag = "return"
    /\ cfg.batch_size = 1
    /\ Len(ret.v) = 2
    /\ ret.X[1] # ret.X[2]
    /\ ret.v[1] # ret.v[2]

\* C4: a decision_function call on a fitted instance changes neither the
\* normalization statistics nor the learned parameters, the best snapshot,
\* the best loss or the training scores.
C4_ScoringKeepsFittedState ==
    [][(Fitted /\ ScoringCall) =>
          /\ mean' = mean
          /\ std' = std
          /\ model'.params = model.params
          /\ best_model_dict' = best_model_dict
          /\ best_loss' = best_loss
          /\ decision_scores_' = decision_scores_
          /\ labels_' = labels_]_vars

C4_Witness ==
    /\ Fitted
    /\ cfg.preprocessing
    /\ ret.op = "decision_function"
    /\ ret.tag = "return"
    /\ np_mean(ret.X) # mean
    /\ model.params > 0

\* C5: every access to the dataset a call wraps around its matrix returns
\* the row unchanged with its index when there are no statistics, so a fit
\* without preprocessing is not aborted by the dataset, and returns
\* (row - mean) / scale when there are.
C5_DatasetAccess ==
    /\ ret.op \in {"fit", "decision_function"} =>
          \A i \in 0..(n_samples(ret.X) - 1) :
              LET X == ret.X
                  ds == DatasetFor(cfg.preprocessing, mean, std, X)
              IN getitem(ds, i) =
                    Returned([sample |-> IF ds.mean = None THEN Row(X, i)
                                         ELSE Standardize(Row(X, i), ds.mean.v, ds.std.v),
                              idx |-> i])
    /\ (ret.op = "fit" /\ ret.tag = "raise" /\ ~cfg.preprocessing /\ cfg.has_loss_fn) =>
          ret.v # "AttributeError"

\* C6: a fit that fails while building the network leaves every attribute
\* of the instance as it was before the call.
C6_FailedBuildLeavesState ==
    [][(pc = "idle" /\ pc' = "idle" /\ ret'.op = "fit" /\ ret'.tag = "raise"
        /\ ret'.v = "ConfigurationError") =>
          Attributes' = Attributes]_vars

LinearWidths(stack) ==
    LET lin == SelectSeq(stack, LAMBDA l : l.kind = "linear")
    IN [i \in 1..Len(lin) |-> <<lin[i].w_in, lin[i].w_out>>]

Pairs(ws) == [i \in 1..(Len(ws) - 1) |-> <<ws[i], ws[i + 1]>>]

Built == ret.op = "inner_autoencoder" /\ ret.tag = "return" /\ cfg.hidden_neurons # <<>>

\* C7: the encoder's linear layers follow [n_features, h1, ..., hk] pair by
\* pair, the decoder's follow the reversed sequence, the encoder ends and
\* the decoder starts at width hk, and the decoder ends at n_features.
C7_MirroredWidths ==
    Built =>
        LET ws == <<ret.X[1]>> \o cfg.hidden_neurons
            enc == LinearWidths(model.encoder)
            dec == LinearWidths(model.decoder)
            k == Len(cfg.hidden_neurons)
        IN /\ enc = Pairs(ws)
           /\ dec = Pairs(Reverse(ws))
           /\ Len(enc) = k
           /\ Len(dec) = k
           /\ enc[k][2] = cfg.hidden_neurons[k]
           /\ dec[1][1] = cfg.hidden_neurons[k]
           /\ dec[k][2] = ret.X[1]

C7_Witness ==
    /\ Built
    /\ ret.X[1] = 3
    /\ cfg.hidden_neurons = <<2, 1>>
    /\ LinearWidths(model.decoder) = <<<<1, 2>>, <<2, 3>>>>

Kinds(stack) == [i \in 1..Len(stack) |-> stack[i].kind]

RECURSIVE Stages(_, _)
Stages(k, batch_norm) ==
    IF k = 0 THEN <<>>
    ELSE (IF batch_norm THEN <<"batch_norm">> ELSE <<>>)
         \o <<"linear", "activation", "dropout">> \o Stages(k - 1, batch_norm)

\* C8: every stage of the decoder is an optional normalization layer, a
\* linear transform, the activation and dropout, as in the encoder, and
\* building the decoder leaves the encoder as its own loop built it.
C8_DecoderMirrorsStages ==
    Built =>
        /\ Kinds(model.decoder) = Stages(Len(cfg.hidden_neurons), cfg.batch_norm)
        /\ Kinds(model.encoder) = Stages(Len(cfg.hidden_neurons), cfg.batch_norm)
        /\ model.encoder =
              EncoderLoop(<<>>, 0, model.layers_neurons_, cfg.batch_norm,
                          cfg.hidden_activation,
                          get_activation_by_name(cfg.hidden_activation).v)

\* the bookkeeping of the epoch loop agrees with the losses printed so far
BestTracked ==
    (pc = "train" \/ (ret.op = "fit" /\ ret.tag = "return")) =>
        /\ Len(stdout) = (IF pc = "train" THEN epoch ELSE cfg.epochs)
        /\ IF Scored(stdout) = {}
           THEN best_loss = Inf /\ best_model_dict = None
           ELSE /\ best_loss = stdout[LatestBest(stdout)]
                /\ best_model_dict.tag = "state_dict"
                /\ best_model_dict.made_at = LatestBest(stdout) - 1

\* C9: a fit runs exactly `epochs` epochs; the best loss starts at +inf and
\* never increases; the snapshot is replaced at the end of an epoch exactly
\* when its mean loss is <= the best so far; of the epochs of minimal mean
\* loss the latest is the one recorded.
C9_BestLossTracking ==
    /\ []BestTracked
    /\ [][(pc = "train" /\ epoch' = epoch + 1) =>
             /\ FloatLeq(best_loss', best_loss)
             /\ (best_model_dict'.tag = "state_dict" /\ best_model_dict'.made_at = epoch)
                    <=> FloatLeq(stdout'[Len(stdout')], best_loss)]_vars

C9_Witness ==
    /\ ret.op = "fit"
    /\ ret.tag = "return"
    /\ stdout = <<Num(1), Num(1)>>
    /\ best_model_dict.made_at = 1

\* C10: decision_function returns scores only if some earlier fit call on
\* the instance ran to completion.
C10_ScoresOnlyAfterCompletedFit ==
    (ret.op = "decision_function" /\ ret.tag = "return") => Fitted

=============================================================================
